---- MODULE Spec2Model ----
(***************************************************************************)
(* EqChanged<T>: a query filter that reports an entity only when the value *)
(* of its component T differs (by PartialEq) from the value recorded in    *)
(* the entity's PreviousValue<T> side component (src/src/lib.rs).          *)
(*                                                                         *)
(* The model follows one entity carrying the component A(usize) of         *)
(* src/examples/simple.rs.  The world is the host: it hands out the change *)
(* tick of every system run, stores A and its write tick, keeps the queue  *)
(* of deferred commands and applies it when it flushes.  Every run of a    *)
(* consumer system evaluates the entity once (one filter_fetch call).      *)
(*                                                                         *)
(* Ticks: every system run takes the world's change tick as its this_run   *)
(* and increments it, so runs have distinct, increasing ticks; a mutable   *)
(* dereference of A stamps A with the writer's this_run; a system that has *)
(* never run has a last_run older than every component tick (0 here).      *)
(* Ticks stay far below the wrap-around of the 32-bit counter.             *)
(*                                                                         *)
(* Flushes: the world applies the queued closures at points the host       *)
(* chooses, so Spec lets a flush happen between any two system runs (or    *)
(* not at all); SpecPasses is the example's schedule, with a flush at the  *)
(* end of every pass.                                                      *)
(*                                                                         *)
(* solo[f] runs, beside the world, the world in which f is the only        *)
(* EqChanged query: same writes, same evaluation points, same flushes.     *)
(***************************************************************************)
EXTENDS Integers, Sequences, FiniteSets, TLC

\* Bounds of the model: the last tick a system may run at, the largest value
\* of A, and the number of passes of the pass discipline.
MaxTick == 9
MaxValue == 1
MaxPass == 3
\* The two EqChanged<A> queries of the example (after_change_a0, after_change_a1).
NumFilters == 2

Filters == 1..NumFilters
Values  == 0..MaxValue
NoId    == -1
NoValue == -1
\* Nothing of the example's Update schedule has run in the current pass.
NoneRan == [noedit_a |-> FALSE, edit_a |-> FALSE, consumers |-> {}]

VARIABLES
    change_tick,      \* the world's change tick: this_run of the next system run
    a_value,          \* the live value of the entity's A component
    a_changed,        \* the write tick of A (set on every mutable dereference)
    previous_value,   \* Option<PreviousValue<A>>: <<>> or <<[previous, changed, handled]>>
    commands,         \* the world's queue of deferred attach closures, in enqueue order
    last_run,         \* last_run of each consumer system (0: has never run)
    next_query_id,    \* the NextQueryId resource
    query_id,         \* EqChangedState.query_id of each filter instance (NoId: no state yet)
    ret,              \* observation: the latest filter_fetch call and what it returned
    seen,             \* observation: the value of A at each consumer's latest evaluation
    trues,            \* observation: per consumer, number of true results since the value last changed
    run_start,        \* observation: tick of the latest write that changed the value
    merged,           \* observation: the consumers whose closures the latest flush applied
    solo,             \* per consumer, the records and queue of a world in which it is the only consumer
    ran               \* systems that already ran in the current pass (pass discipline only)

world == <<change_tick, a_value, a_changed, previous_value, commands, last_run>>
registry == <<next_query_id, query_id>>
observed == <<ret, seen, trues, run_start, merged>>
vars == <<change_tick, a_value, a_changed, previous_value, commands, last_run,
          next_query_id, query_id, ret, seen, trues, run_start, merged, solo, ran>>

(***************************************************************************)
(* Pure parts of the code.                                                 *)
(***************************************************************************)

\* HandledMap::insert / Entry::insert: the map with key k bound to t.
Insert(handled, k, t) == (k :> t) @@ handled

\* PartialEq::ne of A(usize), as derived.
Ne(x, y) == x # y

\* Changed<T>::filter_fetch: the component was written after the system's last run.
Changed(tick, last, this_run) == tick > last

\* NextQueryId handed out by init_state: the id issued and the counter afterwards.
init_state_mutant_no_increment(next) == [query_id |-> next, next |-> next]
init_state(next) == [query_id |-> next, next |-> next + 1]

\* The deferred closure queued by the None branch, applied to the entity later.
attach_mutant_overwrite(pv, id, this_run, new) ==
    << [previous |-> new, changed |-> this_run, handled |-> (id :> this_run)] >>
attach_mutant_stale_tick(pv, id, this_run, new) ==
    IF pv # << >>
    THEN LET rec == pv[1]
             differs == Ne(new, rec.previous)
             previous == IF differs THEN new ELSE rec.previous
             changed == IF differs THEN this_run ELSE rec.changed
         IN  << [previous |-> previous,
                 changed  |-> changed,
                 handled  |-> Insert(rec.handled, id, this_run)] >>
    ELSE << [previous |-> new, changed |-> this_run, handled |-> (id :> this_run)] >>
attach_mutant_keep_tick(pv, id, this_run, new) ==
    IF pv # << >>
    THEN LET rec == pv[1]
             differs == Ne(new, rec.previous)
             previous == IF differs THEN new ELSE rec.previous
             changed == rec.changed
         IN  << [previous |-> previous,
                 changed  |-> changed,
                 handled  |-> Insert(rec.handled, id, changed)] >>
    ELSE << [previous |-> new, changed |-> this_run, handled |-> (id :> this_run)] >>
attach(pv, id, this_run, new) ==
    IF pv # << >>
    THEN \* PreviousValue<T> does actually exist.
         LET rec == pv[1]
             differs == Ne(new, rec.previous)
             previous == IF differs THEN new ELSE rec.previous
             changed == IF differs THEN this_run ELSE rec.changed
         IN  << [previous |-> previous,
                 changed  |-> changed,
                 handled  |-> Insert(rec.handled, id, changed)] >>
    ELSE \* PreviousValue<T> does not exist. Add it.
         << [previous |-> new, changed |-> this_run, handled |-> (id :> this_run)] >>

\* World::flush: the queued closures applied in enqueue order.
RECURSIVE apply_commands(_, _)
apply_commands(pv, cmds) ==
    IF cmds = << >> THEN pv
    ELSE apply_commands(attach(pv, Head(cmds).query_id, Head(cmds).this_run, Head(cmds).new),
                        Tail(cmds))

\* The Some branch: PreviousValue<T> was in the current query.
fetch_some_mutant_vacant_false(rec, id, this_run, new) ==
    LET differs == Ne(new, rec.previous)
        previous == IF differs THEN new ELSE rec.previous
        changed == IF differs THEN this_run ELSE rec.changed
    IN  [result |-> (id \in DOMAIN rec.handled /\ rec.handled[id] # changed),
         branch |-> IF id \in DOMAIN rec.handled THEN "occupied" ELSE "vacant",
         record |-> [previous |-> previous, changed |-> changed,
                     handled |-> Insert(rec.handled, id, changed)]]
fetch_some_mutant_no_ack(rec, id, this_run, new) ==
    LET differs == Ne(new, rec.previous)
        previous == IF differs THEN new ELSE rec.previous
        changed == IF differs THEN this_run ELSE rec.changed
    IN  [result |-> (id \notin DOMAIN rec.handled \/ rec.handled[id] # changed),
         branch |-> IF id \in DOMAIN rec.handled THEN "occupied" ELSE "vacant",
         record |-> [previous |-> previous, changed |-> changed,
                     handled |-> IF id \in DOMAIN rec.handled THEN rec.handled
                                 ELSE Insert(rec.handled, id, changed)]]
fetch_some_mutant_fresh_handled(rec, id, this_run, new) ==
    LET differs == Ne(new, rec.previous)
        previous == IF differs THEN new ELSE rec.previous
        changed == IF differs THEN this_run ELSE rec.changed
    IN  [result |-> (id \notin DOMAIN rec.handled \/ rec.handled[id] # changed),
         branch |-> IF id \in DOMAIN rec.handled THEN "occupied" ELSE "vacant",
         record |-> [previous |-> previous, changed |-> changed,
                     handled |-> IF differs THEN (id :> changed)
                                 ELSE Insert(rec.handled, id, changed)]]
fetch_some_mutant_keep_tick(rec, id, this_run, new) ==
    LET differs == Ne(new, rec.previous)
        previous == IF differs THEN new ELSE rec.previous
        changed == rec.changed
    IN  [result |-> (id \notin DOMAIN rec.handled \/ rec.handled[id] # changed),
         branch |-> IF id \in DOMAIN rec.handled THEN "occupied" ELSE "vacant",
         record |-> [previous |-> previous, changed |-> changed,
                     handled |-> Insert(rec.handled, id, changed)]]
fetch_some(rec, id, this_run, new) ==
    LET differs == Ne(new, rec.previous)
        previous == IF differs THEN new ELSE rec.previous
        changed == IF differs THEN this_run ELSE rec.changed
    IN  [result |-> (id \notin DOMAIN rec.handled \/ rec.handled[id] # changed),
         branch |-> IF id \in DOMAIN rec.handled THEN "occupied" ELSE "vacant",
         record |-> [previous |-> previous, changed |-> changed,
                     handled |-> Insert(rec.handled, id, changed)]]

\* EqChanged::filter_fetch on the entity: the result, and the record and queue it leaves.
\* The variant that skips the Changed<T> check and always looks the record up.
filter_fetch_unfiltered(pv, cmds, id, last, this_run, written, new) ==
    IF pv = << >>
    THEN [result |-> TRUE, branch |-> "none", pv |-> pv,
          cmds |-> Append(cmds, [query_id |-> id, this_run |-> this_run, new |-> new])]
    ELSE LET r == fetch_some(pv[1], id, this_run, new)
         IN  [result |-> r.result, branch |-> r.branch, pv |-> << r.record >>, cmds |-> cmds]
filter_fetch_mutant_sync_insert(pv, cmds, id, last, this_run, written, new) ==
    IF ~Changed(written, last, this_run)
    THEN [result |-> FALSE, branch |-> "rejected", pv |-> pv, cmds |-> cmds]
    ELSE IF pv = << >>
    THEN [result |-> TRUE, branch |-> "none", cmds |-> cmds,
          pv |-> << [previous |-> new, changed |-> this_run,
                     handled |-> (id :> this_run)] >>]
    ELSE LET r == fetch_some(pv[1], id, this_run, new)
         IN  [result |-> r.result, branch |-> r.branch, pv |-> << r.record >>, cmds |-> cmds]
filter_fetch(pv, cmds, id, last, this_run, written, new) ==
    IF ~Changed(written, last, this_run)
    THEN [result |-> FALSE, branch |-> "rejected", pv |-> pv, cmds |-> cmds]
    ELSE IF pv = << >>
    THEN \* PreviousValue<T> was not in the current query.
         [result |-> TRUE, branch |-> "none", pv |-> pv,
          cmds |-> Append(cmds, [query_id |-> id, this_run |-> this_run, new |-> new])]
    ELSE LET r == fetch_some(pv[1], id, this_run, new)
         IN  [result |-> r.result, branch |-> r.branch, pv |-> << r.record >>, cmds |-> cmds]

(***************************************************************************)
(* State after construction: setup_a has spawned A(0) at tick 1; no system *)
(* has run and no filter state exists.                                     *)
(***************************************************************************)
NoEval == [f |-> 0, this_run |-> 0, result |-> FALSE, branch |-> "never",
           value |-> NoValue, seen_before |-> NoValue, solo_result |-> FALSE,
           unfiltered_same |-> TRUE]
NoSolo == [pv |-> << >>, cmds |-> << >>]

Init ==
    /\ change_tick = 2
    /\ a_value = 0
    /\ a_changed = 1
    /\ previous_value = << >>
    /\ commands = << >>
    /\ last_run = [f \in Filters |-> 0]
    /\ next_query_id = 0
    /\ query_id = [f \in Filters |-> NoId]
    /\ ret = NoEval
    /\ seen = [f \in Filters |-> NoValue]
    /\ trues = [f \in Filters |-> 0]
    /\ run_start = 1
    /\ merged = {}
    /\ solo = [f \in Filters |-> NoSolo]
    /\ ran = NoneRan

(***************************************************************************)
(* Operations.                                                             *)
(***************************************************************************)

\* WorldQuery::init_state for filter instance f (once per instance).
InitState(f) ==
    /\ query_id[f] = NoId
    /\ LET s == init_state(next_query_id)
       IN  /\ query_id' = [query_id EXCEPT ![f] = s.query_id]
           /\ next_query_id' = s.next
    /\ UNCHANGED <<world, observed, solo>>

\* A system that mutably dereferences A and stores v (noedit_a: v is the old value).
Write(v) ==
    /\ a_value' = v
    /\ a_changed' = change_tick
    /\ change_tick' = change_tick + 1
    /\ run_start' = IF Ne(v, a_value) THEN change_tick ELSE run_start
    /\ trues' = IF Ne(v, a_value) THEN [f \in Filters |-> 0] ELSE trues
    /\ UNCHANGED <<previous_value, commands, last_run, registry, ret, seen, merged, solo>>

\* noedit_a: a.0 += 0, a mutable dereference that stores the old value.
NoeditA == Write(a_value)

\* edit_a with its timer elapsed: a.0 += 1.
EditA == a_value < MaxValue /\ Write(a_value + 1)

\* edit_a with its timer not elapsed: the system runs and touches nothing.
IdleEditA ==
    /\ change_tick' = change_tick + 1
    /\ UNCHANGED <<a_value, a_changed, previous_value, commands, last_run,
                   registry, observed, solo>>

\* One run of consumer system f: filter_fetch on the entity with this run's ticks.
RunConsumer(f) ==
    /\ query_id[f] # NoId
    /\ LET this_run == change_tick
           r == filter_fetch(previous_value, commands, query_id[f], last_run[f],
                             this_run, a_changed, a_value)
           s == filter_fetch(solo[f].pv, solo[f].cmds, query_id[f], last_run[f],
                             this_run, a_changed, a_value)
           u == filter_fetch_unfiltered(previous_value, commands, query_id[f], last_run[f],
                                        this_run, a_changed, a_value)
       IN  /\ previous_value' = r.pv
           /\ commands' = r.cmds
           /\ solo' = [solo EXCEPT ![f] = [pv |-> s.pv, cmds |-> s.cmds]]
           /\ ret' = [f |-> f, this_run |-> this_run, result |-> r.result,
                      branch |-> r.branch, value |-> a_value,
                      seen_before |-> seen[f], solo_result |-> s.result,
                      unfiltered_same |-> (u.result = r.result /\ u.pv = r.pv
                                           /\ u.cmds = r.cmds)]
           /\ trues' = [trues EXCEPT ![f] = IF r.result /\ @ < 2 THEN @ + 1 ELSE @]
    /\ seen' = [seen EXCEPT ![f] = a_value]
    /\ last_run' = [last_run EXCEPT ![f] = change_tick]
    /\ change_tick' = change_tick + 1
    /\ UNCHANGED <<a_value, a_changed, registry, run_start, merged>>

\* World::flush: every queued closure runs, in enqueue order (in each world).
Flush ==
    /\ previous_value' = apply_commands(previous_value, commands)
    /\ commands' = << >>
    /\ solo' = [f \in Filters |->
                  [pv |-> apply_commands(solo[f].pv, solo[f].cmds), cmds |-> << >>]]
    /\ merged' = {commands[i].query_id : i \in 1..Len(commands)}
    /\ UNCHANGED <<change_tick, a_value, a_changed, last_run, registry,
                   ret, seen, trues, run_start>>

\* Any interleaving of filter construction, writes, consumer runs and flushes.
Next ==
    \/ \E f \in Filters : InitState(f) /\ UNCHANGED ran
    \/ \E v \in Values : change_tick <= MaxTick /\ Write(v) /\ UNCHANGED ran
    \/ \E f \in Filters : change_tick <= MaxTick /\ RunConsumer(f) /\ UNCHANGED ran
    \/ Flush /\ UNCHANGED ran

Spec == Init /\ [][Next]_vars

(***************************************************************************)
(* The example's schedule: in every pass noedit_a, edit_a and both         *)
(* consumers run once each, in any order; the world flushes at the end of  *)
(* the pass (and possibly in between).  Every system's state is built      *)
(* before the first pass.                                                  *)
(***************************************************************************)
\* noedit_a, edit_a and one system per filter run in every pass.
MaxPassTick == 1 + (2 + NumFilters) * MaxPass

AllRegistered == \A f \in Filters : query_id[f] # NoId

AllRan == ran.noedit_a /\ ran.edit_a /\ ran.consumers = Filters

RunNoedit ==
    /\ AllRegistered
    /\ change_tick <= MaxPassTick
    /\ ~ran.noedit_a
    /\ ran' = [ran EXCEPT !.noedit_a = TRUE]
    /\ NoeditA

RunEdit ==
    /\ AllRegistered
    /\ change_tick <= MaxPassTick
    /\ ~ran.edit_a
    /\ ran' = [ran EXCEPT !.edit_a = TRUE]
    /\ \/ EditA
       \/ IdleEditA

RunAfterChange(f) ==
    /\ AllRegistered
    /\ change_tick <= MaxPassTick
    /\ f \notin ran.consumers
    /\ ran' = [ran EXCEPT !.consumers = @ \cup {f}]
    /\ RunConsumer(f)

EndPass ==
    /\ AllRan
    /\ ran' = NoneRan
    /\ Flush

PassNext ==
    \/ \E f \in Filters : InitState(f) /\ UNCHANGED ran
    \/ RunNoedit
    \/ RunEdit
    \/ \E f \in Filters : RunAfterChange(f)
    \/ Flush /\ UNCHANGED ran
    \/ EndPass

SpecPasses == Init /\ [][PassNext]_vars

(***************************************************************************)
(* Helpers of the properties.                                              *)
(***************************************************************************)
Tracked == previous_value # << >>

HasEntry(f) == Tracked /\ query_id[f] \in DOMAIN previous_value[1].handled

\* f has acknowledged the latest change of the recorded value, which is the live value.
CaughtUp(f) ==
    /\ HasEntry(f)
    /\ previous_value[1].handled[query_id[f]] = previous_value[1].changed
    /\ previous_value[1].previous = a_value

\* The step is an evaluation by f (every evaluation has its own this_run).
EvaluatesNow(f) == ret' # ret /\ ret'.f = f

(***************************************************************************)
(* Properties.                                                             *)
(***************************************************************************)

\* C1: a consumer's filter returns true exactly once per maximal run of equal
\* values: a consumer that has evaluated the entity since the value last
\* changed has been answered true exactly once since then.
C1_ExactlyOncePerRun ==
    \A f \in Filters : last_run[f] > run_start => trues[f] = 1

\* C2: the result a consumer gets is the result it gets, at the same
\* evaluation, in the world in which it is the only consumer (same writes,
\* same evaluation points, same flushes).
C2_IndependentOfOthers ==
    ret.f # 0 => ret.result = ret.solo_result

\* C3: the first evaluation of the entity by a consumer returns true, through
\* the None branch when no record exists and through the Vacant branch when a
\* record exists without an entry of this consumer.
C3_FirstObservationTrue ==
    (ret.f # 0 /\ ret.seen_before = NoValue) =>
        /\ ret.result
        /\ ret.branch \in {"none", "vacant"}

\* C3 witness: a consumer's first evaluation met a record made for another
\* consumer, took the Vacant branch and returned true.
C3_Witness ==
    /\ ret.f # 0
    /\ ret.seen_before = NoValue
    /\ ret.branch = "vacant"
    /\ ret.result
    /\ \E g \in Filters : g # ret.f /\ HasEntry(g)

\* C4: writes that store an equal value never yield true: a consumer is
\* answered true at most once for as long as the value does not change.
C4_NoopWriteNeverTrue ==
    \A f \in Filters : trues[f] <= 1

\* C5: when the latest flush applied closures queued by several consumers (all
\* queued through the None branch), one record exists and holds a handled
\* entry for each of them.
C5_NewEntityRace ==
    \A id \in merged : Tracked /\ id \in DOMAIN previous_value[1].handled

\* C5 witness: the flush applied the closures of two consumers.
C5_Witness ==
    /\ Cardinality(merged) = 2
    /\ Tracked
    /\ Cardinality(DOMAIN previous_value[1].handled) = 2

\* C6: in the example's schedule (both consumers, noedit_a and edit_a once per
\* pass in any order, a flush at the end of every pass) a consumer is answered
\* true on its first pass and afterwards exactly on the passes where the
\* value it observes differs from the value it observed on the pass before.
C6_ExampleScenario ==
    ret.f # 0 =>
        (ret.result <=> (ret.seen_before = NoValue \/ ret.value # ret.seen_before))

\* C6 witness: a consumer observes A(1) for the first time, after the other
\* consumer already did, and is answered true.
C6_Witness ==
    /\ ret.f # 0
    /\ ret.seen_before = 0
    /\ ret.value = 1
    /\ ret.result
    /\ \E g \in Filters : g # ret.f /\ seen[g] = 1 /\ last_run[g] < ret.this_run

\* C7: once no closure is pending, every consumer that has evaluated the
\* entity after the last write is caught up (its handled tick is the changed
\* tick and the recorded value is the live value), whatever the order of the
\* consumers; and an evaluation by a caught-up consumer returns false.
C7_CaughtUpAfterWritesStop ==
    commands = << >> =>
        \A f \in Filters : last_run[f] > a_changed => CaughtUp(f)

C7_CaughtUpStaysFalse ==
    \A f \in Filters : (CaughtUp(f) /\ EvaluatesNow(f)) => ~ret'.result

C7_Convergence ==
    /\ []C7_CaughtUpAfterWritesStop
    /\ [][C7_CaughtUpStaysFalse]_vars

\* C7 witness: after a real change of the value both consumers have evaluated
\* the entity again and are caught up, the last of them answered false.
C7_Witness ==
    /\ run_start > 1
    /\ commands = << >>
    /\ \A f \in Filters : last_run[f] > a_changed /\ CaughtUp(f)
    /\ ~ret.result
    /\ ret.branch = "occupied"

\* C8: the identities issued by init_state are pairwise different, the
\* NextQueryId counter equals the number of init_state calls, and the
\* query_id of a filter instance never changes once issued.
C8_IdsDistinct ==
    /\ \A f, g \in Filters :
          (f # g /\ query_id[f] # NoId /\ query_id[g] # NoId) => query_id[f] # query_id[g]
    /\ next_query_id = Cardinality({f \in Filters : query_id[f] # NoId})

C8_IdImmutable ==
    \A f \in Filters : query_id[f] # NoId => query_id'[f] = query_id[f]

C8_UniqueIdentity ==
    /\ []C8_IdsDistinct
    /\ [][C8_IdImmutable]_vars

\* C8 witness: every filter instance has been given its identity.
C8_Witness ==
    /\ \A f \in Filters : query_id[f] # NoId
    /\ next_query_id = NumFilters

\* The record after the first k queued closures have been applied.
AfterPrefix(k) == apply_commands(previous_value, SubSeq(commands, 1, k))

Acknowledged(pv) ==
    pv # << >> => \A id \in DOMAIN pv[1].handled : pv[1].handled[id] <= pv[1].changed

\* C9: whenever the entity has a record, every handled tick is at most the
\* changed tick; also in the record as it stands after each closure of the
\* pending batch has been applied.
C9_HandledAtMostChanged ==
    \A k \in 0..Len(commands) : Acknowledged(AfterPrefix(k))

\* C9 witness: a flush applied the closures of two consumers and left one of
\* them behind the changed tick.
C9_Witness ==
    /\ Cardinality(merged) = 2
    /\ Tracked
    /\ \E id \in DOMAIN previous_value[1].handled :
          previous_value[1].handled[id] < previous_value[1].changed
    /\ \E id \in DOMAIN previous_value[1].handled :
          previous_value[1].handled[id] = previous_value[1].changed

\* Two closures applied to a record, in the order given.
AttachBoth(pv, c, d) ==
    attach(attach(pv, c.query_id, c.this_run, c.new), d.query_id, d.this_run, d.new)

\* The pairs of pending closures of distinct consumers, with the record they
\* would be applied to after the first k closures.
SwappablePairs ==
    {<<k, i, j>> \in (0..Len(commands)) \X (1..Len(commands)) \X (1..Len(commands)) :
        k < i /\ i < j /\ commands[i].query_id # commands[j].query_id}

\* C10 as stated: applying two closures of distinct consumers in either order
\* yields the same record (previous value, changed tick and handled map).
C10_SameRecordEitherOrder ==
    \A t \in SwappablePairs :
        AttachBoth(AfterPrefix(t[1]), commands[t[2]], commands[t[3]])
            = AttachBoth(AfterPrefix(t[1]), commands[t[3]], commands[t[2]])

\* C10 amended: in either order the record ends with a handled entry for the
\* same consumers (both closures' consumers and those already there); the
\* whole record is the same in both orders when neither closure changes the
\* recorded value.
C10_SameConsumersEitherOrder ==
    \A t \in SwappablePairs :
        LET start == AfterPrefix(t[1])
            c == commands[t[2]]
            d == commands[t[3]]
            cd == AttachBoth(start, c, d)
            dc == AttachBoth(start, d, c)
            before == IF start = << >> THEN {} ELSE DOMAIN start[1].handled
        IN  /\ DOMAIN cd[1].handled = before \cup {c.query_id, d.query_id}
            /\ DOMAIN dc[1].handled = DOMAIN cd[1].handled
            /\ (start # << >> /\ c.new = start[1].previous /\ d.new = start[1].previous)
                  => cd = dc

\* C10 witness: closures of two consumers carrying different values are
\* pending behind a closure that creates the record.
C10_Witness ==
    \E t \in SwappablePairs :
        /\ t[1] >= 1
        /\ commands[t[2]].new # commands[t[3]].new

\* C11: the pre-filter is only an optimisation: every evaluation gives the
\* result, the record and the queue that the variant of filter_fetch without
\* the Changed<T> check gives from the same state.
C11_PrefilterOnlyOptimisation ==
    ret.f # 0 => ret.unfiltered_same

\* C12: when the pre-filter rejects (A was not written since the consumer's
\* last run) the evaluation returns false, the record is left as it is and
\* no closure is queued.
C12_RejectTouchesNothing ==
    \A f \in Filters :
        (EvaluatesNow(f) /\ ~Changed(a_changed, last_run[f], change_tick)) =>
            /\ ~ret'.result
            /\ previous_value' = previous_value
            /\ commands' = commands

C12_RejectFrame == [][C12_RejectTouchesNothing]_vars

\* C12 witness: the pre-filter rejected an entity that has no record yet, while
\* the consumer's earlier closure is still pending.
C12_Witness ==
    /\ ret.f # 0
    /\ ret.branch = "rejected"
    /\ ~Tracked
    /\ commands # << >>

\* The first closure of the trailing block of pending closures that carry the
\* value of the last one: the closure whose this_run the flushed record keeps.
LastBlockStart(cmds) ==
    CHOOSE i \in 1..Len(cmds) :
        /\ \A j \in i..Len(cmds) : cmds[j].new = cmds[Len(cmds)].new
        /\ i > 1 => cmds[i - 1].new # cmds[Len(cmds)].new

\* C13: an evaluation of an entity without record that passes the pre-filter
\* returns true, creates no record and appends exactly one closure holding
\* this consumer's query_id, this run's tick and the current value.
C13_NoneBranchOnlyQueues ==
    \A f \in Filters :
        (EvaluatesNow(f) /\ ~Tracked /\ Changed(a_changed, last_run[f], change_tick)) =>
            /\ ret'.result
            /\ previous_value' = << >>
            /\ commands' = Append(commands, [query_id |-> query_id[f],
                                             this_run |-> change_tick,
                                             new      |-> a_value])

\* C13: the record comes into existence only in a flush of a non-empty queue,
\* which applies the closures in enqueue order: the record holds the value of
\* the last closure, stamped with the tick of the first closure since which
\* the queued value stayed the same, and an entry for every queued consumer.
C13_RecordBornInFlush ==
    (~Tracked /\ previous_value' # << >>) =>
        /\ commands # << >>
        /\ commands' = << >>
        /\ previous_value'[1].previous = commands[Len(commands)].new
        /\ previous_value'[1].changed = commands[LastBlockStart(commands)].this_run
        /\ DOMAIN previous_value'[1].handled =
              {commands[i].query_id : i \in 1..Len(commands)}

C13_DeferredAttach ==
    /\ [][C13_NoneBranchOnlyQueues]_vars
    /\ [][C13_RecordBornInFlush]_vars

\* C13 witness: a flush created the record from two closures that carried
\* different values.
C13_Witness ==
    /\ Tracked
    /\ Cardinality(merged) = 2
    /\ ret.branch = "none"
    /\ previous_value[1].changed = ret.this_run
    /\ previous_value[1].previous # 0

HandledOf(pv) == IF pv = << >> THEN {} ELSE DOMAIN pv[1].handled

\* C14: once the entity has a record it keeps it: no evaluation and no flush
\* removes the record or drops a handled entry from it.
C14_TrackedStays ==
    Tracked =>
        /\ previous_value' # << >>
        /\ HandledOf(previous_value) \subseteq HandledOf(previous_value')

\* C14: within a pending batch only the first closure creates the record; each
\* later closure finds it and keeps every entry that is already there.
C14_CreatedOnce ==
    \A k \in 1..Len(commands) :
        /\ AfterPrefix(k) # << >>
        /\ HandledOf(AfterPrefix(k - 1)) \subseteq HandledOf(AfterPrefix(k))
        /\ (k > 1 \/ Tracked) =>
              commands[k].query_id \in HandledOf(AfterPrefix(k))

C14_UntrackedToTracked ==
    /\ []C14_CreatedOnce
    /\ [][C14_TrackedStays]_vars

\* C14 witness: the record was created by a batch of two consumers' closures
\* and a later evaluation changed the recorded value; both entries are there.
C14_Witness ==
    /\ Tracked
    /\ Cardinality(merged) = 2
    /\ ret.branch = "occupied"
    /\ ret.result
    /\ previous_value[1].changed = ret.this_run
    /\ Cardinality(HandledOf(previous_value)) = 2

\* C15: an evaluation of an entity with a record that passes the pre-filter
\* returns true exactly when it changes this consumer's handled entry (absent,
\* or different from the changed tick left by the value comparison), and then
\* sets it to that tick; it returns false exactly when the entry already is
\* that tick, and then leaves handled as it is.
C15_TrueIffEntryMoves ==
    \A f \in Filters :
        (EvaluatesNow(f) /\ Tracked /\ Changed(a_changed, last_run[f], change_tick)) =>
            LET id == query_id[f]
                before == previous_value[1].handled
                after == previous_value'[1].handled
                changed == previous_value'[1].changed
            IN  /\ ret'.result <=> (id \notin DOMAIN before \/ before[id] # after[id])
                /\ ret'.result <=> (after # before)
                /\ after[id] = changed
                /\ ~ret'.result <=> (id \in DOMAIN before /\ before[id] = changed)

C15_HandledDecidesResult == [][C15_TrueIffEntryMoves]_vars

\* C15 witness: a consumer with an entry evaluated after another consumer had
\* recorded the new value: the value comparison found nothing new, the entry
\* was behind the changed tick, the result was true.
C15_Witness ==
    /\ ret.f # 0
    /\ ret.branch = "occupied"
    /\ ret.result
    /\ Tracked
    /\ previous_value[1].changed < ret.this_run
    /\ previous_value[1].handled[query_id[ret.f]] = previous_value[1].changed

\* C16: an evaluation of an entity with a record changes the recorded value
\* and the changed tick only when the live value differs from the recorded
\* one (then they become the live value and this run's tick); otherwise both
\* stay; the handled entries of the other consumers stay in either case.
C16_ValueAndTickFrame ==
    \A f \in Filters :
        (EvaluatesNow(f) /\ Tracked) =>
            LET before == previous_value[1]
                after == previous_value'[1]
            IN  /\ Ne(a_value, before.previous) =>
                      (after.previous = a_value /\ after.changed = change_tick)
                /\ ~Ne(a_value, before.previous) =>
                      (after.previous = before.previous /\ after.changed = before.changed)
                /\ \A id \in DOMAIN before.handled :
                      id # query_id[f] =>
                          (id \in DOMAIN after.handled /\ after.handled[id] = before.handled[id])
                /\ DOMAIN after.handled \subseteq DOMAIN before.handled \cup {query_id[f]}

C16_OnlyUnequalValueMoves == [][C16_ValueAndTickFrame]_vars

\* C16 witness: an evaluation replaced the recorded value while the other
\* consumer's entry stayed at its older tick.
C16_Witness ==
    /\ ret.f # 0
    /\ ret.branch = "occupied"
    /\ Tracked
    /\ previous_value[1].changed = ret.this_run
    /\ previous_value[1].previous = ret.value
    /\ \E id \in DOMAIN previous_value[1].handled :
          previous_value[1].handled[id] < previous_value[1].changed

\* C17: no change is missed: an evaluation that finds a live value unequal to
\* the value the same consumer found at its previous evaluation returns true,
\* whatever the other consumers, the writers and the flushes did in between.
C17_NoChangeMissed ==
    (ret.f # 0 /\ ret.seen_before # NoValue /\ Ne(ret.value, ret.seen_before)) => ret.result

\* C17 witness: the consumer's previous evaluation queued the closure, the
\* other consumer's closure and evaluation moved the record to the new value
\* first, and the consumer still got true for a value the record already held.
C17_Witness ==
    /\ ret.f # 0
    /\ ret.seen_before # NoValue
    /\ Ne(ret.value, ret.seen_before)
    /\ ret.branch = "occupied"
    /\ ret.result
    /\ Tracked
    /\ previous_value[1].changed < ret.this_run
    /\ previous_value[1].previous = ret.value
    /\ Cardinality(merged) = 2

\* C18: the changed tick versions the recorded value.  With no closure
\* pending, a consumer whose handled entry equals the changed tick found, at
\* its most recent evaluation, the value the record holds; and every update of
\* the recorded value, by an evaluation or by a closure of the pending batch,
\* leaves a changed tick greater than the one it replaced.
C18_AcknowledgedMeansSeen ==
    (commands = << >> /\ Tracked) =>
        \A f \in Filters :
            (HasEntry(f) /\ seen[f] # NoValue
                /\ previous_value[1].handled[query_id[f]] = previous_value[1].changed) =>
                previous_value[1].previous = seen[f]

C18_UpdateTakesNewTick ==
    (Tracked /\ previous_value' # << >>
        /\ previous_value'[1].previous # previous_value[1].previous) =>
        previous_value'[1].changed > previous_value[1].changed

C18_BatchTakesNewTicks ==
    \A k \in 1..Len(commands) :
        (AfterPrefix(k - 1) # << >>
            /\ AfterPrefix(k)[1].previous # AfterPrefix(k - 1)[1].previous) =>
            AfterPrefix(k)[1].changed > AfterPrefix(k - 1)[1].changed

C18_ChangedTickIsVersion ==
    /\ [](C18_AcknowledgedMeansSeen /\ C18_BatchTakesNewTicks)
    /\ [][C18_UpdateTakesNewTick]_vars

\* C18 witness: both consumers acknowledged the changed tick of a value that
\* was recorded by an evaluation after the record was created, and the record
\* holds what each of them last found.
C18_Witness ==
    /\ commands = << >>
    /\ Tracked
    /\ \A f \in Filters :
          /\ HasEntry(f)
          /\ previous_value[1].handled[query_id[f]] = previous_value[1].changed
          /\ seen[f] = previous_value[1].previous
    /\ previous_value[1].previous # 0
    /\ Cardinality(merged) = 2
    /\ ret.f # 0
    /\ previous_value[1].changed < ret.this_run

====
